---- MODULE Spec2Model ----
(***************************************************************************)
(* fastleng: sequence-length statistics.                                   *)
(*                                                                         *)
(* Two state machines share this module.                                   *)
(*   SpecStats - the summary statistics engine of length_stats.rs: a       *)
(*               caller holds one length distribution and calls            *)
(*               compute_total_counts, compute_median_length,              *)
(*               compute_length_stats and compute_n_score on it.           *)
(*   SpecLoad  - the loaders of fastx_loader.rs and bam_loader.rs: one     *)
(*               call of gather_fastx_stats_with_seed,                     *)
(*               gather_bam_stats_with_seed or gather_multifastx_stats,    *)
(*               stepped record by record; the parsing library is the      *)
(*               environment and what it yielded is logged in `files`.     *)
(*                                                                         *)
(* A BTreeMap<usize, u64> is a function whose domain is its key set.       *)
(*                                                                         *)
(* Magnitudes.  A u64 of the program is written here in two digits,        *)
(*     x = Hi(x) * Unit + Lo(x),    Unit = 25 * 2^48  (about 7.0e15),      *)
(* with Lo(x) < Radix = 2^16, and the module stores the two digits in one  *)
(* integer, Hi(x) * Radix + Lo(x).  Sums, products by a one-digit number,  *)
(* halving of an even high digit and comparisons act on the stored integer *)
(* exactly as they act on the u64 as long as no low digit reaches Radix    *)
(* and the value stays below 2^64; InitStats admits only such inputs.      *)
(* Numbers with Hi = 0 are ordinary small integers.  Numbers with Hi >= 2  *)
(* exceed 2^53, where u64 -> f64 conversion rounds.                        *)
(*                                                                         *)
(* The product target * total_bases can exceed 2^64.  It is written        *)
(* [hi48, lo], the value hi48 * 2^48 + lo, so that reduction modulo 2^64   *)
(* is hi48 % 2^16; a u64 x has hi48 = 25 * Hi(x).                          *)
(*                                                                         *)
(* An f64 is [w, num, den], the value w * 2^46 / 25 + num / den  (so that  *)
(* 2^48 is 100 of w, and dividing by 100 turns hi48 into w).  AsF64 and    *)
(* F64DivHundred round to nearest, ties to even, at the 53-bit precision   *)
(* of the format, with two exceptions where the quotient x / 100.0 is kept *)
(* as the exact rational.  With w = 0: the only f64 it is compared with is *)
(* an integer below 2^16, and for x / 100 < 2^46 the rounded quotient lies *)
(* strictly between the same two integers as the exact one, or equals it   *)
(* when x / 100 is an integer.  With w not a multiple of 25 (this needs a  *)
(* product that wrapped): every f64 it is compared with is a u64 turned    *)
(* f64, whose w is a multiple of 2500, so the two differ by more than      *)
(* 2^41, and rounding moves the quotient by less than 2^11.                *)
(***************************************************************************)
EXTENDS Integers, Sequences, FiniteSets, TLC

\* ------------------------------------------------------------------ bounds
MaxLen == 2        \* keys of a distribution handed to the statistics engine: 0..MaxLen
MaxCount == 2      \* counts of a caller-supplied distribution: 0..MaxCount
MaxRecLen == 2     \* lengths of the records a source yields: 1..MaxRecLen
MaxRecs == 3       \* records read during one top-level loader call
MaxFiles == 2      \* length of the filename list given to gather_multifastx_stats

\* ------------------------------------------------------- program constants
MinTarget == 1     \* assert!((1..=99).contains(&target))
MaxTarget == 99

\* the two-digit writing of a u64
Radix == 2^16
Unit == Radix
Hi(x) == x \div Radix
Lo(x) == x % Radix
\* x < 2^64, that is Hi(x) * 25 * 2^48 + Lo(x) < 2^64
FitsU64(x) == Hi(x) * 25 < 2^16

Lengths == 0..MaxLen
Counts == 0..MaxCount
\* counts beyond 32 bits: 8 * 25 * 2^48 and 16 * 25 * 2^48 + 2
GiantCounts == {8 * Unit, 16 * Unit + 2}
RecLens == 1..MaxRecLen
\* every in-range target and the two nearest out-of-range ones
Targets == (MinTarget - 1)..(MaxTarget + 1)

EmptyMap == << >>
MapsOver(K, V) == UNION {[S -> V] : S \in SUBSET K}
Distributions == MapsOver(Lengths, Counts \cup GiantCounts)

VARIABLES
    \* ---- statistics engine (SpecStats)
    length_counts,  \* the distribution the caller holds
    pc,             \* which calls the caller has made
    totals,         \* result of compute_total_counts: <<total_bases, total_seqs>>
    median,         \* result of compute_median_length
    stats,          \* result of compute_length_stats
    target,         \* the target passed to compute_n_score
    n_score,        \* result of compute_n_score
    overflow_checks, \* whether the build panics on integer overflow (else it wraps)
    \* ---- loaders (SpecLoad)
    entry,          \* the function called: "fastx", "bam", "multi"
    initial_counts, \* the Option seed of a single-file call
    n_files,        \* filenames.len()
    files,          \* log of what each source yielded so far
    file_idx,       \* index of the file being read (1-based)
    hash_stats,     \* the one BTreeMap of the call: it is moved, never copied, between
                    \* gather_multifastx_stats and gather_*_stats_with_seed
    count,          \* count of the running gather_*_stats_with_seed
    warning_triggered, \* bam loader's local flag
    warnings,       \* number of warn! lines the running bam call has emitted
    lpc,            \* position of the loader call
    result,         \* what the top-level loader call returned
    prev_warnings,  \* warn! lines of the caller's previous bam call, -1 if none
    \* ---- command line program (SpecMain)
    mpc,            \* the block of main() that runs next, or in which the process exited
    out_fn,         \* --out-json, "stdout" by default
    length_fn,      \* --length-json, "" by default
    exit_code,      \* "running" until the process ends
    out_file,       \* what main() has done to the file named out_fn
    length_file,    \* what main() has done to the file named length_fn
    stdout_report   \* whether the report was printed on standard output

statsVars == <<length_counts, pc, totals, median, stats, target, n_score,
               overflow_checks>>
loadVars == <<entry, initial_counts, n_files, files, file_idx,
              hash_stats, count, warning_triggered, warnings, lpc, result,
              prev_warnings>>
mainVars == <<mpc, out_fn, length_fn, exit_code, out_file, length_file, stdout_report>>
vars == <<statsVars, loadVars, mainVars>>

\* ===================================================== length_stats.rs

\* BTreeMap::iter(): the keys in ascending order
RECURSIVE AscendingKeys(_)
AscendingKeys(S) ==
    IF S = {} THEN << >>
    ELSE LET m == CHOOSE x \in S : \A y \in S : x <= y
         IN <<m>> \o AscendingKeys(S \ {m})

Iter(lc) == AscendingKeys(DOMAIN lc)

\* .iter().rev(): the keys in descending order
IterRevForgotten(lc) == Iter(lc)

IterRev(lc) ==
    LET a == Iter(lc) IN [i \in 1..Len(a) |-> a[Len(a) + 1 - i]]

\* ---- f64
RECURSIVE FloorLog2(_)
FloorLog2(n) == IF n <= 1 THEN 0 ELSE 1 + FloorLog2(n \div 2)

\* the integer nearest to a / b, ties to the even one
RoundHalfEven(a, b) ==
    LET q == a \div b
        r == a % b
    IN IF 2 * r < b THEN q
       ELSE IF 2 * r > b THEN q + 1
       ELSE IF q % 2 = 0 THEN q ELSE q + 1

\* `as f64` of a u64: x = h * 25 * 2^48 + l lies in [2^e, 2^(e+1)) with
\* e = 48 + FloorLog2(25 * h), so l is rounded to a multiple of 2^(e - 52)
AsF64(x) ==
    IF Hi(x) = 0 THEN [w |-> 0, num |-> x, den |-> 1]
    ELSE LET ulp == 2^(FloorLog2(25 * Hi(x)) - 4)
         IN [w |-> 2500 * Hi(x), num |-> ulp * RoundHalfEven(Lo(x), ulp), den |-> 1]

\* `as f64` of the u64 p.hi48 * 2^48 + p.lo, which lies in [2^e, 2^(e+1))
\* with e = 48 + FloorLog2(p.hi48): p.lo is rounded to a multiple of
\* 2^(e - 52), and is exact when that is 1 or less
ProductAsF64(p) ==
    IF p.hi48 = 0 THEN [w |-> 0, num |-> p.lo, den |-> 1]
    ELSE LET e == FloorLog2(p.hi48) - 4
             ulp == IF e > 0 THEN 2^e ELSE 1
         IN [w |-> 100 * p.hi48, num |-> ulp * RoundHalfEven(p.lo, ulp), den |-> 1]

\* a / 100.0 for an integer-valued a = hi48 * 2^48 + num, a.w = 100 * hi48.
\* When hi48 = 25 * h the quotient h * 2^46 + num / 100 lies in [2^e, 2^(e+1))
\* with e = 46 + FloorLog2(h), so num / 100 is rounded to a multiple of
\* 2^(e - 52) = 2^FloorLog2(h) / 64
F64DivHundred(a) ==
    LET hi48 == a.w \div 100
    IN IF hi48 = 0 \/ hi48 % 25 # 0
       THEN [w |-> hi48, num |-> a.num, den |-> 100 * a.den]
       ELSE LET p == 2^FloorLog2(hi48 \div 25)
            IN [w |-> hi48, num |-> p * RoundHalfEven(64 * a.num, 100 * p), den |-> 64]

\* a >= b; the parts num / den are far below 2^46
F64Ge(a, b) ==
    \/ a.w > b.w
    \/ a.w = b.w /\ a.num * b.den >= b.num * a.den

\* a / b for two f64: IEEE division never traps, 0.0 / 0.0 is NaN; the quotient
\* is kept as its two operands
F64Quotient(a, b) == [dividend |-> a, divisor |-> b]

\* ---- compute_total_counts
TotalStepSwapped(acc, length, cnt) ==
    [total_bases |-> acc.total_bases + cnt,
     total_seqs  |-> acc.total_seqs + length * cnt]

\* loop body: total_bases += length * count; total_seqs += count
TotalStep(acc, length, cnt) ==
    [total_bases |-> acc.total_bases + length * cnt,
     total_seqs  |-> acc.total_seqs + cnt]

RECURSIVE TotalLoop(_, _, _, _)
TotalLoop(lc, keys, i, acc) ==
    IF i > Len(keys) THEN acc
    ELSE TotalLoop(lc, keys, i + 1, TotalStep(acc, keys[i], lc[keys[i]]))

compute_total_counts(lc) ==
    LET r == TotalLoop(lc, Iter(lc), 1, [total_bases |-> 0, total_seqs |-> 0])
    IN <<r.total_bases, r.total_seqs>>

\* ---- results of the two functions that can panic
\* value returned and number of map entries the loop visited; a failed assert!
\* unwinds and returns nothing (value is then a filler of the return type)
Returned(v, n) == [panic |-> FALSE, value |-> v, visited |-> n]
PanickedF64(n) == [panic |-> TRUE, value |-> AsF64(0), visited |-> n]
PanickedUsize(n) == [panic |-> TRUE, value |-> 0, visited |-> n]

\* ---- compute_median_length
MedianHitInclusive(total_observed, middle_seq_index) ==
    total_observed >= middle_seq_index

\* if total_observed > middle_seq_index
MedianHit(total_observed, middle_seq_index) ==
    total_observed > middle_seq_index

\* assert!(total_seqs == 0 && length_counts.is_empty())
MedianEmptyAssert(lc, total_seqs) == total_seqs = 0 /\ DOMAIN lc = {}

RECURSIVE MedianLoop(_, _, _, _, _, _)
MedianLoop(lc, total_seqs, keys, i, total_observed, middle_seq_index) ==
    IF i > Len(keys)
    THEN IF MedianEmptyAssert(lc, total_seqs)
         THEN Returned(AsF64(0), i - 1)
         ELSE PanickedF64(i - 1)
    ELSE LET seen == total_observed + lc[keys[i]]
         IN IF MedianHit(seen, middle_seq_index)
            THEN Returned(AsF64(keys[i]), i)
            ELSE MedianLoop(lc, total_seqs, keys, i + 1, seen, middle_seq_index)

compute_median_length(lc, total_seqs) ==
    MedianLoop(lc, total_seqs, Iter(lc), 1, 0, total_seqs \div 2)

\* ---- compute_n_score
TargetInRangeWide(t) == t \in (MinTarget - 1)..(MaxTarget + 1)

\* (1..=99).contains(&target)
TargetInRange(t) == t \in MinTarget..MaxTarget

\* target as u64 * total_bases leaves the u64 range
MulOverflows(t, total_bases) == ~FitsU64(t * total_bases)

\* target as u64 * total_bases, modulo 2^64
WrappingMul(t, total_bases) ==
    [hi48 |-> (25 * Hi(t * total_bases)) % 2^16, lo |-> Lo(t * total_bases)]

\* (target as u64 * total_bases) as f64 / 100.0
TargetBases(t, total_bases) ==
    F64DivHundred(ProductAsF64(WrappingMul(t, total_bases)))

\* assert!(total_bases == 0 && length_counts.is_empty())
NScoreEmptyAssert(lc, total_bases) == total_bases = 0 /\ DOMAIN lc = {}

RECURSIVE NScoreLoop(_, _, _, _, _, _)
NScoreLoop(lc, total_bases, keys, i, current_bases, target_bases) ==
    IF i > Len(keys)
    THEN IF NScoreEmptyAssert(lc, total_bases)
         THEN Returned(0, i - 1)
         ELSE PanickedUsize(i - 1)
    ELSE LET cur == current_bases + keys[i] * lc[keys[i]]
         IN IF F64Ge(AsF64(cur), target_bases)
            THEN Returned(keys[i], i)
            ELSE NScoreLoop(lc, total_bases, keys, i + 1, cur, target_bases)

compute_n_score(lc, total_bases, t) ==
    IF ~TargetInRange(t)
    THEN PanickedUsize(0)
    ELSE IF MulOverflows(t, total_bases) /\ overflow_checks
    THEN PanickedUsize(0)
    ELSE NScoreLoop(lc, total_bases, IterRev(lc), 1, 0, TargetBases(t, total_bases))

\* ---- compute_length_stats
MeanLengthInteger(total_bases, total_seqs) ==
    IF total_seqs = 0
    THEN [panic |-> TRUE, value |-> F64Quotient(AsF64(0), AsF64(0))]
    ELSE [panic |-> FALSE,
          value |-> F64Quotient(AsF64(total_bases \div total_seqs), AsF64(1))]

\* (total_bases as f64) / (total_seqs as f64): IEEE division, 0/0 is NaN, no panic
MeanLength(total_bases, total_seqs) ==
    [panic |-> FALSE, value |-> F64Quotient(AsF64(total_bases), AsF64(total_seqs))]

StatsPanicked ==
    [panic |-> TRUE, total_bases |-> 0, total_sequences |-> 0,
     mean_length |-> F64Quotient(AsF64(0), AsF64(0)), median_length |-> AsF64(0),
     n10 |-> 0, n25 |-> 0, n50 |-> 0, n75 |-> 0, n90 |-> 0]

compute_length_stats(lc) ==
    LET t == compute_total_counts(lc)
        med == compute_median_length(lc, t[2])
        n10 == compute_n_score(lc, t[1], 10)
        n25 == compute_n_score(lc, t[1], 25)
        n50 == compute_n_score(lc, t[1], 50)
        n75 == compute_n_score(lc, t[1], 75)
        n90 == compute_n_score(lc, t[1], 90)
        mean == MeanLength(t[1], t[2])
    IN IF med.panic \/ n10.panic \/ n25.panic \/ n50.panic \/ n75.panic
          \/ n90.panic \/ mean.panic
       THEN StatsPanicked
       ELSE [panic |-> FALSE, total_bases |-> t[1], total_sequences |-> t[2],
             mean_length |-> mean.value, median_length |-> med.value,
             n10 |-> n10.value, n25 |-> n25.value, n50 |-> n50.value,
             n75 |-> n75.value, n90 |-> n90.value]

\* ---- the caller of the statistics engine
MainIdle ==
    /\ mpc = "idle"
    /\ out_fn = "stdout"
    /\ length_fn = ""
    /\ exit_code = "running"
    /\ out_file = "untouched"
    /\ length_file = "untouched"
    /\ stdout_report = FALSE

LoadIdle ==
    /\ entry = "none"
    /\ initial_counts = [some |-> FALSE, map |-> EmptyMap]
    /\ n_files = 0
    /\ files = << >>
    /\ file_idx = 0
    /\ hash_stats = EmptyMap
    /\ count = 0
    /\ warning_triggered = FALSE
    /\ warnings = 0
    /\ lpc = "idle"
    /\ result = [kind |-> "none", map |-> EmptyMap]
    /\ prev_warnings = -1

InitStats ==
    /\ length_counts \in Distributions
    /\ FitsU64(compute_total_counts(length_counts)[1])
    /\ FitsU64(compute_total_counts(length_counts)[2])
    \* the two builds differ only where a product can overflow
    /\ overflow_checks \in
          (IF MulOverflows(MaxTarget, compute_total_counts(length_counts)[1])
           THEN BOOLEAN ELSE {TRUE})
    /\ pc = "start"
    /\ totals = <<0, 0>>
    /\ median = Returned(AsF64(0), 0)
    /\ stats = StatsPanicked
    /\ target = 0
    /\ n_score = Returned(0, 0)
    /\ LoadIdle
    /\ MainIdle

CallTotalCounts ==
    /\ pc = "start"
    /\ totals' = compute_total_counts(length_counts)
    /\ pc' = "totals"
    /\ UNCHANGED <<length_counts, median, stats, target, n_score, overflow_checks,
                   loadVars, mainVars>>

CallMedianLength ==
    /\ pc = "totals"
    /\ median' = compute_median_length(length_counts, totals[2])
    /\ pc' = "median"
    /\ UNCHANGED <<length_counts, totals, stats, target, n_score, overflow_checks,
                   loadVars, mainVars>>

CallLengthStats ==
    /\ pc = "median"
    /\ stats' = compute_length_stats(length_counts)
    /\ pc' = "stats"
    /\ UNCHANGED <<length_counts, totals, median, target, n_score, overflow_checks,
                   loadVars, mainVars>>

CallNScore ==
    /\ pc = "stats"
    /\ \E t \in Targets :
        /\ target' = t
        /\ n_score' = compute_n_score(length_counts, totals[1], t)
    /\ pc' = "nscore"
    /\ UNCHANGED <<length_counts, totals, median, stats, overflow_checks, loadVars,
                   mainVars>>

NextStats == CallTotalCounts \/ CallMedianLength \/ CallLengthStats \/ CallNScore

SpecStats == InitStats /\ [][NextStats]_vars

\* ============================================ fastx_loader.rs, bam_loader.rs

None == [some |-> FALSE, map |-> EmptyMap]
Some(m) == [some |-> TRUE, map |-> m]
Ok(m) == [kind |-> "ok", map |-> m]
Err == [kind |-> "err", map |-> EmptyMap]
NoResult == [kind |-> "none", map |-> EmptyMap]

\* seeds a caller can hand to gather_*_stats_with_seed
Seeds == {None} \cup {Some(m) : m \in MapsOver(RecLens, Counts)}

\* a source as the parsing library presented it: whether it opened, the
\* records it yielded, and how reading ended
UnreadFile == [status |-> "unread", recs |-> << >>]
Record(len, unmapped) == [seq_len |-> len, unmapped |-> unmapped]

\* match initial_counts { Some(ic) => ic, None => BTreeMap::new() }
InitialStats(initial) == IF initial.some THEN initial.map ELSE EmptyMap

ObserveInsertOne(hs, seq_len) ==
    IF seq_len \in DOMAIN hs
    THEN [hs EXCEPT ![seq_len] = @ + 1]
    ELSE [k \in DOMAIN hs \cup {seq_len} |-> IF k = seq_len THEN 2 ELSE hs[k]]

ObserveForgetsOthers(hs, seq_len) ==
    [k \in {seq_len} |-> IF seq_len \in DOMAIN hs THEN hs[seq_len] + 1 ELSE 1]

\* let len_count = hash_stats.entry(seq_len).or_insert(0); *len_count += 1;
Observe(hs, seq_len) ==
    IF seq_len \in DOMAIN hs
    THEN [hs EXCEPT ![seq_len] = @ + 1]
    ELSE [k \in DOMAIN hs \cup {seq_len} |-> IF k = seq_len THEN 1 ELSE hs[k]]

MultiSeedDropped(hs) == None

\* the seed argument of the merger's call: Some(hash_stats)
MultiSeed(hs) == Some(hs)

\* ---- the loaders as functions of what the sources hold
RECURSIVE GatherLoop(_, _, _)
GatherLoop(hs, recs, i) ==
    IF i > Len(recs) THEN hs
    ELSE GatherLoop(Observe(hs, recs[i].seq_len), recs, i + 1)

gather_fastx_stats_with_seed(file, initial) ==
    IF file.status = "noopen" THEN Err
    ELSE LET hs == GatherLoop(InitialStats(initial), file.recs, 1)
         IN IF file.status = "badrec" THEN Err ELSE Ok(hs)

RECURSIVE MultiLoop(_, _, _)
MultiLoop(fs, i, hs) ==
    IF i > Len(fs) THEN Ok(hs)
    ELSE LET r == gather_fastx_stats_with_seed(fs[i], MultiSeed(hs))
         IN IF r.kind = "ok" THEN MultiLoop(fs, i + 1, r.map) ELSE Err

gather_multifastx_stats(fs) == MultiLoop(fs, 1, EmptyMap)

\* ---- the loaders step by step
StatsIdle ==
    /\ length_counts = EmptyMap
    /\ pc = "idle"
    /\ totals = <<0, 0>>
    /\ median = Returned(AsF64(0), 0)
    /\ stats = StatsPanicked
    /\ target = 0
    /\ n_score = Returned(0, 0)
    /\ overflow_checks = TRUE

RECURSIVE RecordsRead(_, _)
RecordsRead(fs, i) ==
    IF i > Len(fs) THEN 0 ELSE Len(fs[i].recs) + RecordsRead(fs, i + 1)

InitLoad ==
    /\ entry \in {"fastx", "bam", "multi"}
    /\ initial_counts \in (IF entry = "multi" THEN {None} ELSE Seeds)
    /\ n_files \in (IF entry = "multi" THEN 0..MaxFiles ELSE {1})
    /\ files = [i \in 1..n_files |-> UnreadFile]
    /\ file_idx = 0
    /\ hash_stats = EmptyMap
    /\ count = 0
    /\ warning_triggered = FALSE
    /\ warnings = 0
    /\ lpc = "call"
    /\ result = NoResult
    /\ prev_warnings = -1
    /\ StatsIdle
    /\ MainIdle

\* gather_fastx_stats_with_seed / gather_bam_stats_with_seed called by the user:
\* let mut hash_stats = match initial_counts {...}
GatherEnter ==
    /\ lpc = "call"
    /\ entry \in {"fastx", "bam"}
    /\ hash_stats' = InitialStats(initial_counts)
    /\ file_idx' = 1
    /\ lpc' = "open"
    /\ UNCHANGED <<entry, initial_counts, n_files, files, count,
                   warning_triggered, warnings, result, prev_warnings, statsVars, mainVars>>

\* gather_multifastx_stats: let mut hash_stats = BTreeMap::new()
MultiEnter ==
    /\ lpc = "call"
    /\ entry = "multi"
    /\ hash_stats' = EmptyMap
    /\ file_idx' = 1
    /\ lpc' = "loop"
    /\ UNCHANGED <<entry, initial_counts, n_files, files, count,
                   warning_triggered, warnings, result, prev_warnings, statsVars, mainVars>>

\* for filename in filenames.iter():
\*     gather_fastx_stats_with_seed(filename.as_ref(), Some(hash_stats))
MultiCall ==
    /\ lpc = "loop"
    /\ file_idx <= n_files
    /\ hash_stats' = InitialStats(MultiSeed(hash_stats))
    /\ lpc' = "open"
    /\ UNCHANGED <<entry, initial_counts, n_files, files, file_idx, count,
                   warning_triggered, warnings, result, prev_warnings, statsVars, mainVars>>

\* the list is exhausted: Ok(hash_stats)
MultiDone ==
    /\ lpc = "loop"
    /\ file_idx > n_files
    /\ result' = Ok(hash_stats)
    /\ lpc' = "done"
    /\ UNCHANGED <<entry, initial_counts, n_files, files, file_idx, hash_stats,
                   count, warning_triggered, warnings, prev_warnings, statsVars, mainVars>>

\* parse_fastx_file(&filename)? / bam::Reader::from_path(filename)? succeeds;
\* the loop's locals are initialised
OpenOk ==
    /\ lpc = "open"
    /\ files' = [files EXCEPT ![file_idx].status = "open"]
    /\ count' = 0
    /\ warning_triggered' = FALSE
    /\ warnings' = 0
    /\ lpc' = "read"
    /\ UNCHANGED <<entry, initial_counts, n_files, file_idx, hash_stats, result,
                   prev_warnings, statsVars, mainVars>>

\* the ? on the reader returns the error; hash_stats is dropped
OpenErr ==
    /\ lpc = "open"
    /\ files' = [files EXCEPT ![file_idx].status = "noopen"]
    /\ hash_stats' = EmptyMap
    /\ lpc' = "err"
    /\ UNCHANGED <<entry, initial_counts, n_files, file_idx, count,
                   warning_triggered, warnings, result, prev_warnings, statsVars, mainVars>>

\* fastx loop body on a well-formed record
FastxRecord ==
    /\ lpc = "read"
    /\ entry \in {"fastx", "multi"}
    /\ RecordsRead(files, 1) < MaxRecs
    /\ \E seq_len \in RecLens :
        /\ hash_stats' = Observe(hash_stats, seq_len)
        /\ files' = [files EXCEPT ![file_idx].recs = Append(@, Record(seq_len, TRUE))]
    /\ count' = count + 1
    /\ UNCHANGED <<entry, initial_counts, n_files, file_idx, warning_triggered,
                   warnings, lpc, result, prev_warnings, statsVars, mainVars>>

ShouldWarnEveryAligned(triggered, is_unmapped) == ~is_unmapped

\* if !warning_triggered && !record.is_unmapped()
ShouldWarn(triggered, is_unmapped) == ~triggered /\ ~is_unmapped

\* bam loop body on a well-formed record
BamRecord ==
    /\ lpc = "read"
    /\ entry = "bam"
    /\ RecordsRead(files, 1) < MaxRecs
    /\ \E seq_len \in RecLens, is_unmapped \in BOOLEAN :
        /\ IF ShouldWarn(warning_triggered, is_unmapped)
           THEN warnings' = warnings + 1 /\ warning_triggered' = TRUE
           ELSE UNCHANGED <<warnings, warning_triggered>>
        /\ hash_stats' = Observe(hash_stats, seq_len)
        /\ files' = [files EXCEPT
                       ![file_idx].recs = Append(@, Record(seq_len, is_unmapped))]
    /\ count' = count + 1
    /\ UNCHANGED <<entry, initial_counts, n_files, file_idx, lpc, result,
                   prev_warnings, statsVars, mainVars>>

\* let seq_rec = record?; on a malformed record: the error is returned and
\* hash_stats is dropped
RecordErr ==
    /\ lpc = "read"
    /\ files' = [files EXCEPT ![file_idx].status = "badrec"]
    /\ hash_stats' = EmptyMap
    /\ lpc' = "err"
    /\ UNCHANGED <<entry, initial_counts, n_files, file_idx, count,
                   warning_triggered, warnings, result, prev_warnings, statsVars, mainVars>>

\* reader.next() is None: Ok(hash_stats)
EndOfFile ==
    /\ lpc = "read"
    /\ files' = [files EXCEPT ![file_idx].status = "eof"]
    /\ lpc' = "ok"
    /\ UNCHANGED <<entry, initial_counts, n_files, file_idx, hash_stats, count,
                   warning_triggered, warnings, result, prev_warnings, statsVars, mainVars>>

\* the user's call returns
GatherReturn ==
    /\ lpc \in {"ok", "err"}
    /\ entry \in {"fastx", "bam"}
    /\ result' = IF lpc = "ok" THEN Ok(hash_stats) ELSE Err
    /\ lpc' = "done"
    /\ UNCHANGED <<entry, initial_counts, n_files, files, file_idx, hash_stats,
                   count, warning_triggered, warnings, prev_warnings, statsVars, mainVars>>

\* Ok(result) => result: the merger takes the map back and goes to the next file
MultiOk ==
    /\ lpc = "ok"
    /\ entry = "multi"
    /\ file_idx' = file_idx + 1
    /\ lpc' = "loop"
    /\ UNCHANGED <<entry, initial_counts, n_files, files, hash_stats, count,
                   warning_triggered, warnings, result, prev_warnings, statsVars, mainVars>>

MultiErrSkipsFile ==
    /\ lpc = "err"
    /\ entry = "multi"
    /\ file_idx' = file_idx + 1
    /\ lpc' = "loop"
    /\ UNCHANGED <<entry, initial_counts, n_files, files, hash_stats, count,
                   warning_triggered, warnings, result, prev_warnings, statsVars, mainVars>>

\* Err(e) => { error!(...); return Err(e); }
MultiErr ==
    /\ lpc = "err"
    /\ entry = "multi"
    /\ result' = Err
    /\ lpc' = "done"
    /\ UNCHANGED <<entry, initial_counts, n_files, files, file_idx, hash_stats,
                   count, warning_triggered, warnings, prev_warnings, statsVars, mainVars>>

\* the caller of the bam loader, holding the result of one call, calls it
\* again on another file, without a seed; the frame of the finished call is
\* gone and the locals of the new one are not initialised before it runs
BamCallAgain ==
    /\ lpc = "done"
    /\ entry = "bam"
    /\ initial_counts' = None
    /\ files' = <<UnreadFile>>
    /\ file_idx' = 0
    /\ hash_stats' = EmptyMap
    /\ result' = NoResult
    /\ prev_warnings' = IF files[1].status = "noopen" THEN -1 ELSE warnings
    /\ lpc' = "call"
    /\ UNCHANGED <<entry, n_files, count, warning_triggered, warnings, statsVars, mainVars>>

NextLoad ==
    \/ GatherEnter \/ MultiEnter \/ MultiCall \/ MultiDone
    \/ OpenOk \/ OpenErr \/ FastxRecord \/ BamRecord \/ RecordErr \/ EndOfFile
    \/ GatherReturn \/ MultiOk \/ MultiErr \/ BamCallAgain

SpecLoad == InitLoad /\ [][NextLoad]_vars

\* ================================================================ main.rs
\* the names of the optional arguments: a path, or the default
OutNames == {"stdout", "report.json"}
LengthNames == {"", "lengths.json"}

InitMain ==
    /\ mpc = "check_input"
    /\ out_fn \in OutNames
    /\ length_fn \in LengthNames
    /\ exit_code = "running"
    /\ out_file = "untouched"
    /\ length_file = "untouched"
    /\ stdout_report = FALSE
    /\ LoadIdle
    /\ StatsIdle

\* std::process::exit(code) in the block mpc
Exit(code) ==
    /\ exit_code' = code
    /\ UNCHANGED mpc

\* //check inputs: match File::open(&fastx_fn)
CheckInput ==
    /\ exit_code = "running"
    /\ mpc = "check_input"
    /\ \E opened \in BOOLEAN :
          IF opened THEN mpc' = "check_out" /\ UNCHANGED exit_code
          ELSE Exit("NOINPUT")
    /\ UNCHANGED <<out_fn, length_fn, out_file, length_file, stdout_report,
                   loadVars, statsVars>>

\* //check outputs: if out_fn != "stdout" { match File::create(&out_fn) ... }
CheckOutJson ==
    /\ exit_code = "running"
    /\ mpc = "check_out"
    /\ IF out_fn # "stdout"
       THEN \E created \in BOOLEAN :
               IF created
               THEN out_file' = "empty" /\ mpc' = "check_length" /\ UNCHANGED exit_code
               ELSE Exit("CANTCREAT") /\ UNCHANGED out_file
       ELSE mpc' = "check_length" /\ UNCHANGED <<exit_code, out_file>>
    /\ UNCHANGED <<out_fn, length_fn, length_file, stdout_report, loadVars, statsVars>>

\* if length_fn != "" { match File::create(&length_fn) ... }
CheckLengthJson ==
    /\ exit_code = "running"
    /\ mpc = "check_length"
    /\ IF length_fn # ""
       THEN \E created \in BOOLEAN :
               IF created
               THEN length_file' = "empty" /\ mpc' = "gather" /\ UNCHANGED exit_code
               ELSE Exit("CANTCREAT") /\ UNCHANGED length_file
       ELSE mpc' = "gather" /\ UNCHANGED <<exit_code, length_file>>
    /\ UNCHANGED <<out_fn, length_fn, out_file, stdout_report, loadVars, statsVars>>

\* gather_fastx_stats(&fastx_fn) is called:
\* gather_fastx_stats_with_seed(filename, None)
MainGather ==
    /\ exit_code = "running"
    /\ mpc = "gather"
    /\ lpc = "idle"
    /\ entry' = "fastx"
    /\ initial_counts' = None
    /\ n_files' = 1
    /\ files' = <<UnreadFile>>
    /\ lpc' = "call"
    /\ UNCHANGED <<file_idx, hash_stats, count, warning_triggered, warnings, result,
                   prev_warnings, statsVars, mainVars>>

\* Err(e) => { ...; std::process::exit(exitcode::IOERR); }
MainGatherErr ==
    /\ exit_code = "running"
    /\ mpc = "gather"
    /\ lpc = "done"
    /\ result.kind = "err"
    /\ Exit("IOERR")
    /\ UNCHANGED <<out_fn, length_fn, out_file, length_file, stdout_report,
                   loadVars, statsVars>>

\* Ok(result) => result; //compute the stats; serde_json::to_string(...)
MainComputeStats ==
    /\ exit_code = "running"
    /\ mpc = "gather"
    /\ lpc = "done"
    /\ result.kind = "ok"
    /\ length_counts' = result.map
    /\ stats' = compute_length_stats(result.map)
    /\ IF stats'.panic THEN Exit("panic")
       ELSE mpc' = "report" /\ UNCHANGED exit_code
    /\ UNCHANGED <<out_fn, length_fn, out_file, length_file, stdout_report,
                   loadVars, pc, totals, median, target, n_score, overflow_checks>>

\* //this is what we should put in the file: println! of the report, or
\* File::create(&out_fn) again and serde_json::to_writer_pretty(...).unwrap()
WriteReport ==
    /\ exit_code = "running"
    /\ mpc = "report"
    /\ IF out_fn = "stdout"
       THEN /\ stdout_report' = TRUE
            /\ mpc' = "lengths"
            /\ UNCHANGED <<exit_code, out_file>>
       ELSE /\ UNCHANGED stdout_report
            /\ \E created \in BOOLEAN, written \in BOOLEAN :
                  IF ~created THEN Exit("CANTCREAT") /\ UNCHANGED out_file
                  ELSE IF ~written THEN Exit("panic") /\ out_file' = "partial"
                  ELSE out_file' = "report" /\ mpc' = "lengths" /\ UNCHANGED exit_code
    /\ UNCHANGED <<out_fn, length_fn, length_file, loadVars, statsVars>>

\* if length_fn != "" { File::create(&length_fn) again;
\* serde_json::to_writer_pretty(out_file, &length_counts).unwrap() }
WriteLengths ==
    /\ exit_code = "running"
    /\ mpc = "lengths"
    /\ IF length_fn # ""
       THEN \E created \in BOOLEAN, written \in BOOLEAN :
               IF ~created THEN Exit("CANTCREAT") /\ UNCHANGED length_file
               ELSE IF ~written THEN Exit("panic") /\ length_file' = "partial"
               ELSE length_file' = "lengths" /\ mpc' = "finish" /\ UNCHANGED exit_code
       ELSE mpc' = "finish" /\ UNCHANGED <<exit_code, length_file>>
    /\ UNCHANGED <<out_fn, length_fn, out_file, stdout_report, loadVars, statsVars>>

\* info!("Processes successfully finished."); main returns
MainReturn ==
    /\ exit_code = "running"
    /\ mpc = "finish"
    /\ exit_code' = "OK"
    /\ UNCHANGED <<mpc, out_fn, length_fn, out_file, length_file, stdout_report,
                   loadVars, statsVars>>

NextMain ==
    \/ CheckInput \/ CheckOutJson \/ CheckLengthJson
    \/ MainGather \/ GatherEnter \/ OpenOk \/ OpenErr \/ FastxRecord \/ RecordErr
    \/ EndOfFile \/ GatherReturn
    \/ MainGatherErr \/ MainComputeStats \/ WriteReport \/ WriteLengths \/ MainReturn

SpecMain == InitMain /\ [][NextMain]_vars

\* ============================================================ claims
\* ---- definitions the claims are stated with (independent of the loops above)
RECURSIVE SetSum(_, _)
SetSum(S, f) ==
    IF S = {} THEN 0
    ELSE LET x == CHOOSE y \in S : TRUE IN f[x] + SetSum(S \ {x}, f)

SumOfCounts(lc) == SetSum(DOMAIN lc, lc)
SumOfBases(lc) == SetSum(DOMAIN lc, [k \in DOMAIN lc |-> k * lc[k]])
\* number of sequences shorter than k, and no longer than k
CountBelow(lc, k) == SetSum({j \in DOMAIN lc : j < k}, lc)
CountUpTo(lc, k) == SetSum({j \in DOMAIN lc : j <= k}, lc)
\* bases in sequences of length at least k
Coverage(lc, k) ==
    SetSum({j \in DOMAIN lc : j >= k}, [j \in DOMAIN lc |-> j * lc[j]])
\* element at 1-based position p of the expanded ascending list of all lengths
ExpandedAt(lc, p) ==
    CHOOSE k \in DOMAIN lc : CountBelow(lc, k) < p /\ p <= CountUpTo(lc, k)
SetMin(S) == CHOOSE x \in S : \A y \in S : x <= y
SetMax(S) == CHOOSE x \in S : \A y \in S : x >= y
F64Equal(a, b) == a.w = b.w /\ a.num * b.den = b.num * a.den
AllCountsPositive(lc) == \A k \in DOMAIN lc : lc[k] >= 1
\* every key a length of at least one base, every count at least one and small
Ordinary(lc) ==
    /\ AllCountsPositive(lc)
    /\ 0 \notin DOMAIN lc
    /\ \A k \in DOMAIN lc : lc[k] \in Counts
\* the keys whose coverage reaches t percent of total_bases
Qualifying(lc, total_bases, t) ==
    {k \in DOMAIN lc : Coverage(lc, k) * 100 >= t * total_bases}

TotalsCalled == pc \in {"totals", "median", "stats", "nscore"}
MedianCalled == pc \in {"median", "stats", "nscore"}
StatsCalled == pc \in {"stats", "nscore"}
NScoreCalled == pc = "nscore"

\* C1: compute_total_counts(D) = (sum of length * count, sum of count) for
\* every distribution D, and (0, 0) for the empty one.
C1_TotalsAreSums ==
    TotalsCalled =>
        /\ totals = <<SumOfBases(length_counts), SumOfCounts(length_counts)>>
        /\ (DOMAIN length_counts = {} => totals = <<0, 0>>)

C1_Witness ==
    /\ TotalsCalled
    /\ Cardinality(DOMAIN length_counts) >= 2
    /\ totals[2] >= 3
    /\ totals[1] > totals[2]

\* C2: for a non-empty distribution with all counts >= 1 the median is the first
\* key, ascending, at which the running count exceeds floor(total_seqs / 2),
\* which is the element at zero-based index floor(total_seqs / 2) of the
\* expanded ascending list of lengths.
C2_MedianIsMiddleElement ==
    (MedianCalled /\ DOMAIN length_counts # {} /\ AllCountsPositive(length_counts)) =>
        LET total_seqs == SumOfCounts(length_counts)
            mid == total_seqs \div 2
        IN /\ ~median.panic
           /\ median.value =
                AsF64(SetMin({k \in DOMAIN length_counts :
                                 CountUpTo(length_counts, k) > mid}))
           /\ median.value = AsF64(ExpandedAt(length_counts, mid + 1))

C2_Witness ==
    /\ MedianCalled
    /\ AllCountsPositive(length_counts)
    /\ Cardinality(DOMAIN length_counts) >= 3
    /\ \E k \in DOMAIN length_counts : length_counts[k] >= 2
    /\ ~median.panic
    /\ median.value # AsF64(SetMin(DOMAIN length_counts))
    /\ median.value # AsF64(SetMax(DOMAIN length_counts))

\* the two middle elements of the expanded list when the total n is even and
\* non-zero: zero-based indices n/2 - 1 and n/2
EvenTotal(lc) == SumOfCounts(lc) > 0 /\ SumOfCounts(lc) % 2 = 0
LowerMiddle(lc) == ExpandedAt(lc, SumOfCounts(lc) \div 2)
UpperMiddle(lc) == ExpandedAt(lc, SumOfCounts(lc) \div 2 + 1)

\* C3 as claimed: with an even total the median is the lower (smaller) of the
\* two middle elements. Stated here for ordinary distributions only.
C3_Original_LowerOfMiddlePair ==
    (MedianCalled /\ EvenTotal(length_counts) /\ Ordinary(length_counts)) =>
        /\ ~median.panic
        /\ median.value = AsF64(LowerMiddle(length_counts))

\* C3 amended: with an even, non-zero total the median is the upper (larger) of
\* the two middle elements, zero-based index total / 2, and is not their
\* average when they differ.
C3_UpperOfMiddlePair ==
    (MedianCalled /\ EvenTotal(length_counts)) =>
        LET lo == LowerMiddle(length_counts)
            hi == UpperMiddle(length_counts)
        IN /\ ~median.panic
           /\ lo <= hi
           /\ median.value = AsF64(hi)
           /\ (lo # hi => ~F64Equal(median.value, [w |-> 0, num |-> lo + hi, den |-> 2]))

C3_Witness ==
    /\ MedianCalled
    /\ EvenTotal(length_counts)
    /\ LowerMiddle(length_counts) < UpperMiddle(length_counts)
    /\ median.value = AsF64(UpperMiddle(length_counts))

\* C4: for a non-empty distribution with counts >= 1 and a target in 1..99 the
\* sequences at least as long as the returned N-score hold at least
\* target * total_bases / 100 bases (never a deficit). Stated here for the
\* distributions whose product target * total_bases stays within u64.
C4_NScoreCoversTarget ==
    (NScoreCalled /\ DOMAIN length_counts # {} /\ AllCountsPositive(length_counts)
       /\ target \in 1..99 /\ ~MulOverflows(target, totals[1])) =>
        /\ ~n_score.panic
        /\ Coverage(length_counts, n_score.value) * 100 >= target * totals[1]

\* C4 where the code's f64 arithmetic is exact: the same statement for
\* distributions with target * total_bases below 2^53.
C4_CoversTargetWhereExact ==
    (NScoreCalled /\ DOMAIN length_counts # {} /\ AllCountsPositive(length_counts)
       /\ target \in 1..99 /\ Hi(target * totals[1]) = 0) =>
        /\ ~n_score.panic
        /\ Coverage(length_counts, n_score.value) * 100 >= target * totals[1]

\* the keys whose coverage reaches t percent of total_bases in the code's
\* comparison, both sides rounded to f64
QualifyingF64(lc, total_bases, t) ==
    {k \in DOMAIN lc :
        F64Ge(AsF64(Coverage(lc, k)), TargetBases(t, total_bases))}

\* C5 as claimed: the N-score is the minimum length of D whose coverage reaches
\* the target (no smaller length of D reaches it too). Stated here for ordinary
\* distributions only.
C5_Original_MinimumQualifying ==
    (NScoreCalled /\ DOMAIN length_counts # {} /\ Ordinary(length_counts)
       /\ target \in 1..99) =>
        /\ ~n_score.panic
        /\ n_score.value = SetMin(Qualifying(length_counts, totals[1], target))

\* C5 amended: the N-score is the maximum length L of D such that the
\* sequences of length at least L hold at least target percent of total bases
\* as the code compares the two in f64 (no larger length of D does); the
\* comparison is the exact one when target * total_bases is below 2^53. When
\* target * total_bases exceeds the u64 range, a build with overflow checks
\* panics and a build without applies the same rule to the product modulo 2^64.
C5_MaximumQualifying ==
    (NScoreCalled /\ DOMAIN length_counts # {} /\ target \in 1..99) =>
        IF MulOverflows(target, totals[1]) /\ overflow_checks
        THEN n_score.panic
        ELSE /\ ~n_score.panic
             /\ n_score.value = SetMax(QualifyingF64(length_counts, totals[1], target))
             /\ Hi(target * totals[1]) = 0 =>
                   n_score.value = SetMax(Qualifying(length_counts, totals[1], target))

C5_Witness ==
    /\ NScoreCalled
    /\ target \in 1..99
    /\ AllCountsPositive(length_counts)
    /\ Hi(target * totals[1]) = 0
    /\ ~n_score.panic
    /\ Cardinality(Qualifying(length_counts, totals[1], target)) >= 2
    /\ Qualifying(length_counts, totals[1], target) # DOMAIN length_counts
    /\ n_score.value = SetMax(Qualifying(length_counts, totals[1], target))

\* C6: compute_n_score with a target outside 1..99 fails its assertion before
\* any entry of the distribution is visited and returns no length.
C6_OutOfRangeTargetPanics ==
    (NScoreCalled /\ (target < 1 \/ target > 99)) =>
        /\ n_score.panic
        /\ n_score.visited = 0

C6_Witness ==
    /\ NScoreCalled
    /\ target = 100
    /\ Cardinality(DOMAIN length_counts) >= 2
    /\ AllCountsPositive(length_counts)
    /\ n_score.panic

\* C7: on the empty distribution the totals are (0, 0), the median is 0.0, the
\* N-score is 0 for every target in 1..99, and neither these calls nor
\* compute_length_stats fail an assertion.
C7_EmptyDistribution ==
    DOMAIN length_counts = {} =>
        /\ TotalsCalled => totals = <<0, 0>>
        /\ MedianCalled => median = Returned(AsF64(0), 0)
        /\ StatsCalled =>
              /\ ~stats.panic
              /\ stats.total_bases = 0 /\ stats.total_sequences = 0
              /\ stats.median_length = AsF64(0)
              /\ <<stats.n10, stats.n25, stats.n50, stats.n75, stats.n90>>
                   = <<0, 0, 0, 0, 0>>
        /\ (NScoreCalled /\ target \in 1..99) => n_score = Returned(0, 0)

C7_Witness ==
    /\ DOMAIN length_counts = {}
    /\ NScoreCalled
    /\ target = 50
    /\ ~stats.panic
    /\ n_score.value = 0

\* ---- definitions the loader claims are stated with
Get(m, k) == IF k \in DOMAIN m THEN m[k] ELSE 0
RecordsOfLength(file, k) ==
    Cardinality({i \in 1..Len(file.recs) : file.recs[i].seq_len = k})
LengthsIn(file) == {file.recs[i].seq_len : i \in 1..Len(file.recs)}
SeedMap == IF initial_counts.some THEN initial_counts.map ELSE EmptyMap
RECURSIVE SumAt(_, _, _)
SumAt(ms, k, i) == IF i > Len(ms) THEN 0 ELSE Get(ms[i], k) + SumAt(ms, k, i + 1)
KeywiseSum(ms) ==
    [k \in UNION {DOMAIN ms[i] : i \in 1..Len(ms)} |-> SumAt(ms, k, 1)]
AllSourcesSucceeded == \A i \in 1..n_files : files[i].status = "eof"
SingleCallDone == lpc = "done" /\ entry \in {"fastx", "bam"}
MultiCallDone == lpc = "done" /\ entry = "multi"

\* C8: a single-file call whose source is read to its end without error returns,
\* for every length k, the seed's count for k (0 if absent or no seed) plus the
\* number of records of length k; no other key is added or changed.
C8_SeedPlusRecordCounts ==
    (SingleCallDone /\ AllSourcesSucceeded) =>
        /\ result.kind = "ok"
        /\ DOMAIN result.map = DOMAIN SeedMap \cup LengthsIn(files[1])
        /\ \A k \in RecLens \cup DOMAIN result.map :
              Get(result.map, k) = Get(SeedMap, k) + RecordsOfLength(files[1], k)
        /\ \A k \in DOMAIN SeedMap \ LengthsIn(files[1]) :
              result.map[k] = SeedMap[k]

C8_Witness ==
    /\ SingleCallDone
    /\ AllSourcesSucceeded
    /\ initial_counts.some
    /\ Len(files[1].recs) = 2
    /\ \E k \in DOMAIN SeedMap : SeedMap[k] >= 1 /\ k \in LengthsIn(files[1])
    /\ LengthsIn(files[1]) \ DOMAIN SeedMap # {}
    /\ result.kind = "ok"

\* C9: when every source succeeds the merger returns the key-wise sum of the
\* distributions of the files each aggregated on its own from an empty seed;
\* the empty list gives the empty distribution.
C9_MergeIsKeywiseSum ==
    (MultiCallDone /\ AllSourcesSucceeded) =>
        LET alone == [i \in 1..n_files |->
                        gather_fastx_stats_with_seed(files[i], None)]
        IN /\ result.kind = "ok"
           /\ \A i \in 1..n_files : alone[i].kind = "ok"
           /\ result.map = KeywiseSum([i \in 1..n_files |-> alone[i].map])
           /\ (n_files = 0 => result.map = EmptyMap)

C9_Witness ==
    /\ MultiCallDone
    /\ AllSourcesSucceeded
    /\ n_files = 2
    /\ LengthsIn(files[1]) \cap LengthsIn(files[2]) # {}
    /\ \E k \in DOMAIN result.map : result.map[k] = 2

\* C10: the merged distribution is the same for every permutation of a list of
\* sources that all succeed.
C10_MergeOrderIrrelevant ==
    (MultiCallDone /\ AllSourcesSucceeded) =>
        \A p \in Permutations(1..n_files) :
            gather_multifastx_stats([i \in 1..n_files |-> files[p[i]]]) = result

C10_Witness ==
    /\ MultiCallDone
    /\ AllSourcesSucceeded
    /\ n_files = 2
    /\ files[1].recs # << >>
    /\ files[2].recs # << >>
    /\ LengthsIn(files[1]) # LengthsIn(files[2])
    /\ gather_multifastx_stats(<<files[2], files[1]>>) = result

\* ---- definitions the failure and warning claims are stated with
Failed(file) == file.status \in {"noopen", "badrec"}
AlignedRecords(file) ==
    {i \in 1..Len(file.recs) : ~file.recs[i].unmapped}
\* a bam call that opened its file: its loop is running or has ended
BamReading == entry = "bam" /\ files[1].status \in {"open", "eof", "badrec"}

\* C11: when a source of the list fails to open or yields a malformed record,
\* gather_multifastx_stats stops there: every earlier source was read to its
\* end, no later source is ever opened or read, the call returns an error,
\* and the counts accumulated so far are dropped, not returned.
C11_MultiStopsAtFirstFailure ==
    entry = "multi" =>
        /\ \A i \in 1..n_files :
              Failed(files[i]) =>
                 /\ \A j \in 1..(i - 1) : files[j].status = "eof"
                 /\ \A j \in (i + 1)..n_files : files[j] = UnreadFile
                 /\ file_idx = i
                 /\ lpc \in {"err", "done"}
                 /\ hash_stats = EmptyMap
                 /\ lpc = "done" => result = Err
        /\ lpc = "done" =>
              /\ result = gather_multifastx_stats(files)
              /\ result.kind = "err" <=> \E i \in 1..n_files : Failed(files[i])
              /\ result.kind = "err" => result.map = EmptyMap

C11_Witness ==
    /\ MultiCallDone
    /\ n_files = 2
    /\ files[1].status = "badrec"
    /\ Len(files[1].recs) >= 1
    /\ files[2] = UnreadFile
    /\ result = Err

\* the warnings of a bam call match the records it has read, and its counts
\* are those of the lengths alone
WarningMatchesAligned ==
    BamReading =>
        /\ warnings = (IF AlignedRecords(files[1]) = {} THEN 0 ELSE 1)
        /\ warning_triggered <=> AlignedRecords(files[1]) # {}
        /\ files[1].status \in {"open", "eof"} =>
              hash_stats = GatherLoop(InitialStats(initial_counts), files[1].recs, 1)

\* a step of the bam loop emits a warning exactly when the record it reads is
\* the first aligned record of the file, and counts the record's length
WarningAtFirstAligned ==
    (entry = "bam" /\ lpc = "read" /\ Len(files'[1].recs) = Len(files[1].recs) + 1) =>
        LET rec == files'[1].recs[Len(files'[1].recs)]
        IN /\ warnings' = warnings + 1 <=>
                 (~rec.unmapped /\ AlignedRecords(files[1]) = {})
           /\ warnings' \in {warnings, warnings + 1}
           /\ hash_stats' = Observe(hash_stats, rec.seq_len)

\* C12: one call of gather_bam_stats_with_seed emits the aligned-input warning
\* once if the file holds an aligned record and not at all otherwise, however
\* many aligned records follow and whatever an earlier call emitted; the
\* warning comes with the first aligned record; the length counted for a
\* record does not depend on whether it is aligned.
C12_WarnsOncePerCall ==
    /\ []WarningMatchesAligned
    /\ [][WarningAtFirstAligned]_vars

C12_Witness ==
    /\ SingleCallDone
    /\ entry = "bam"
    /\ prev_warnings = 1
    /\ result.kind = "ok"
    /\ Cardinality(AlignedRecords(files[1])) >= 2
    /\ files[1].recs[1].unmapped
    /\ warnings = 1

\* ---- definitions the command line claim is stated with
MainExited == exit_code # "running"
MainFailed == exit_code \notin {"running", "OK"}
ReportWritten == stdout_report \/ out_file = "report"
AggregationStarted == lpc # "idle"
OutputsChecked ==
    /\ out_fn # "stdout" => out_file # "untouched"
    /\ length_fn # "" => length_file # "untouched"

\* the order of main(): the input is opened first, then both destinations are
\* created, and only then is gather_fastx_stats called; each early exit has
\* its own code
ChecksPrecedeAggregation ==
    /\ AggregationStarted => mpc \notin {"check_input", "check_out", "check_length"}
    /\ AggregationStarted => OutputsChecked
    /\ exit_code = "NOINPUT" <=> (MainExited /\ mpc = "check_input")
    /\ exit_code = "NOINPUT" =>
          out_file = "untouched" /\ length_file = "untouched" /\ ~AggregationStarted
    /\ (MainExited /\ mpc \in {"check_out", "check_length"}) =>
          exit_code = "CANTCREAT" /\ ~AggregationStarted
    /\ exit_code = "IOERR" <=> (MainExited /\ mpc = "gather" /\ result.kind = "err")
    /\ (MainExited /\ mpc \in {"check_input", "check_out", "check_length", "gather"}) =>
          ~ReportWritten

\* C13: in a run of the program both destinations are checked for
\* creatability before the first record is aggregated; a destination that
\* cannot be created ends the run with the cannot-create code and no
\* aggregation, an unreadable input ends it before that with the no-input
\* code, a failure during aggregation ends it with the I/O-error code, and no
\* failing run has written a report.
C13_ChecksFirstAndNoReportOnFailure ==
    /\ ChecksPrecedeAggregation
    /\ MainFailed => ~ReportWritten

\* C13 without its last part: holds of every run.
C13_ChecksPrecedeAggregation == ChecksPrecedeAggregation

\* ---- definitions the growth claim is stated with
\* every key of m is a key of n with a count at least as large
Contains(n, m) == \A k \in DOMAIN m : k \in DOMAIN n /\ n[k] >= m[k]
\* n is m with one more sequence of one length
OneMore(n, m) ==
    \E k \in DOMAIN n :
        /\ DOMAIN n = DOMAIN m \cup {k}
        /\ n[k] = Get(m, k) + 1
        /\ \A j \in DOMAIN m \ {k} : n[j] = m[j]
\* a step of a running call that is not the return of an error
AggregationStep == lpc \notin {"idle", "done"} /\ lpc' # "err"
RecordStep == RecordsRead(files', 1) = RecordsRead(files, 1) + 1

\* C14: the running distribution never shrinks: over every step of a running
\* aggregation every key stays with a count at least as large as before, and a
\* step that reads a record raises exactly one count, by exactly 1, and leaves
\* all others as they were.
C14_NeverShrinks ==
    [][AggregationStep =>
          /\ Contains(hash_stats', hash_stats)
          /\ RecordStep => OneMore(hash_stats', hash_stats)
          /\ ~RecordStep => (hash_stats' = hash_stats \/ lpc = "call")]_vars

C14_Witness ==
    /\ entry = "multi"
    /\ file_idx = 2
    /\ lpc = "read"
    /\ Len(files[1].recs) >= 1
    /\ Len(files[2].recs) >= 2
    /\ Cardinality(DOMAIN hash_stats) >= 2
    /\ \E k \in DOMAIN hash_stats : hash_stats[k] >= 2

\* ---- definitions the claims about large counts are stated with
\* compute_n_score with target * total_bases formed in unbounded integers
UnboundedNScore(lc, total_bases, t) ==
    IF ~TargetInRange(t) THEN PanickedUsize(0)
    ELSE NScoreLoop(lc, total_bases, IterRev(lc), 1, 0,
                    F64DivHundred(AsF64(t * total_bases)))
SmallCounts(lc) == \A k \in DOMAIN lc : lc[k] \in Counts
HasGiantCount(lc) == \E k \in DOMAIN lc : lc[k] \in GiantCounts

\* C15: for every distribution whose total_bases fits in a u64, counts beyond
\* 32 bits included, compute_total_counts returns the exact sums and, for
\* every target in 1..99, the product target * total_bases does not leave the
\* u64 range and compute_n_score returns what it returns with unbounded
\* integers.
C15_NoOverflowOnLargeCounts ==
    /\ TotalsCalled =>
          totals = <<SumOfBases(length_counts), SumOfCounts(length_counts)>>
    /\ (NScoreCalled /\ target \in 1..99) =>
          /\ ~MulOverflows(target, totals[1])
          /\ n_score = UnboundedNScore(length_counts, totals[1], target)

\* C15 where the product fits: the totals are always exact, and whenever
\* target * total_bases is within u64 the result is that of unbounded integers.
C15_ExactWithinU64 ==
    /\ TotalsCalled =>
          totals = <<SumOfBases(length_counts), SumOfCounts(length_counts)>>
    /\ (NScoreCalled /\ target \in 1..99 /\ ~MulOverflows(target, totals[1])) =>
          n_score = UnboundedNScore(length_counts, totals[1], target)

\* C16: for every distribution with non-negative counts, zero counts allowed,
\* compute_median_length and compute_n_score called with the totals of
\* compute_total_counts never fail an assertion, and compute_n_score returns 0
\* when total_bases is 0. Stated here for small counts and keys of at least 1.
C16_NoAssertionFailureWithZeroCounts ==
    (SmallCounts(length_counts) /\ 0 \notin DOMAIN length_counts) =>
        /\ MedianCalled => ~median.panic
        /\ (NScoreCalled /\ target \in 1..99) =>
              /\ ~n_score.panic
              /\ totals[1] = 0 => n_score.value = 0

\* C16 for counts of at least 1: no assertion fails and, total_bases being 0,
\* the N-score is 0.
C16_NoAssertionFailureWithPositiveCounts ==
    (SmallCounts(length_counts) /\ AllCountsPositive(length_counts)) =>
        /\ MedianCalled => ~median.panic
        /\ (NScoreCalled /\ target \in 1..99) =>
              /\ ~n_score.panic
              /\ totals[1] = 0 => n_score.value = 0

\* the report's N-scores do not increase with the target
ReportOrdered(r) ==
    r.n10 >= r.n25 /\ r.n25 >= r.n50 /\ r.n50 >= r.n75 /\ r.n75 >= r.n90
\* N-scores and median of a report are lengths of lc
ReportOfKeys(r, lc) ==
    /\ {r.n10, r.n25, r.n50, r.n75, r.n90} \subseteq DOMAIN lc
    /\ \E k \in DOMAIN lc : r.median_length = AsF64(k)
\* the N-score does not increase from target t to t + 1 (and so, along the
\* chain, from any target to any larger one)
MonotoneAt(lc, total_bases, t, score) ==
    LET next == compute_n_score(lc, total_bases, t + 1)
    IN ~score.panic /\ ~next.panic /\ score.value >= next.value

\* C17: for every distribution with counts >= 1 the N-score does not increase
\* with the target over 1..99, so every report has n10 >= n25 >= n50 >= n75 >=
\* n90, and for a non-empty distribution every N-score and the median are
\* keys of the distribution.
C17_NScoreMonotone ==
    AllCountsPositive(length_counts) =>
        /\ (NScoreCalled /\ target \in 1..98) =>
              MonotoneAt(length_counts, totals[1], target, n_score)
        /\ (NScoreCalled /\ target \in 1..99 /\ DOMAIN length_counts # {}) =>
              ~n_score.panic /\ n_score.value \in DOMAIN length_counts
        /\ StatsCalled => ~stats.panic /\ ReportOrdered(stats)
        /\ (StatsCalled /\ DOMAIN length_counts # {}) =>
              ReportOfKeys(stats, length_counts)

\* C17 where no product target * total_bases overflows.
C17_MonotoneWithinU64 ==
    ~MulOverflows(MaxTarget, SumOfBases(length_counts)) => C17_NScoreMonotone

====
